---- MODULE Spec2Model ----
(***************************************************************************)
(* Model of the ChatArea conversation session (the React component with    *)
(* graph support): its state hooks, the sendMessage handler with its two   *)
(* suspension points (await fetch, await response.json()), the key handler *)
(* and the graph modal handlers.                                           *)
(*                                                                         *)
(* Strings that the code inspects character by character (the input        *)
(* buffer, message texts) are sequences of one-character strings.  An      *)
(* optional field is the empty set when absent (undefined) and a singleton *)
(* set when present.                                                       *)
(***************************************************************************)
EXTENDS Integers, Sequences, FiniteSets, TLC

(* ------------------------------ bounds --------------------------------- *)

\* number of sendMessage calls that pass the guard in one run
MaxTurns == 2

(* --------------------------- input alphabets --------------------------- *)

\* values of the input box: empty, whitespace only, a word, a word with
\* surrounding whitespace, two words
Inputs ==
  { <<>>, <<" ">>, <<"a">>, <<" ", "a", " ">>, <<"a", " ", "b">> }

Keys == {"Enter", "a"}

Replies == {<<"o", "k">>}

GraphUrls == {"g7"}

QueryIds == {7}

QueryTexts == {"q"}

Absent == {}

Opt(S) == {Absent} \cup {{x} : x \in S}

\* the decoded body of a successful /chat response: a reply and any
\* combination of the optional fields
Payloads ==
  [reply : Replies, graph_url : Opt(GraphUrls),
   query_id : Opt(QueryIds), query_text : Opt(QueryTexts)]

(* ------------------------------ strings -------------------------------- *)

IsSpace(c) == c = " "

RECURSIVE TrimStart(_)
TrimStart(s) ==
  IF s = <<>> THEN <<>>
  ELSE IF IsSpace(Head(s)) THEN TrimStart(Tail(s)) ELSE s

RECURSIVE TrimEnd(_)
TrimEnd(s) ==
  IF s = <<>> THEN <<>>
  ELSE IF IsSpace(s[Len(s)]) THEN TrimEnd(SubSeq(s, 1, Len(s) - 1)) ELSE s

\* String.prototype.trim
Trim(s) == TrimEnd(TrimStart(s))

\* the empty string is the only falsy string
Falsy(s) == s = <<>>

(* ------------------------------ messages ------------------------------- *)

FallbackText ==
  << "S", "o", "r", "r", "y", ",", " ", "I", "'", "m", " ", "h",
     "a", "v", "i", "n", "g", " ", "t", "r", "o", "u", "b", "l",
     "e", " ", "c", "o", "n", "n", "e", "c", "t", "i", "n", "g",
     " ", "t", "o", " ", "t", "h", "e", " ", "A", "I", " ", "s",
     "e", "r", "v", "i", "c", "e", ".", " ", "P", "l", "e", "a",
     "s", "e", " ", "m", "a", "k", "e", " ", "s", "u", "r", "e",
     " ", "t", "h", "e", " ", "b", "a", "c", "k", "e", "n", "d",
     " ", "i", "s", " ", "r", "u", "n", "n", "i", "n", "g", "." >>

UserMsg(userMessage) ==
  [role |-> "user", text |-> userMessage,
   graph_url |-> Absent, query_id |-> Absent, query_text |-> Absent]

\* variant: only the reply is copied
AssistantMsgTextOnly(data) ==
  [role |-> "assistant", text |-> data.reply,
   graph_url |-> Absent, query_id |-> Absent, query_text |-> Absent]

AssistantMsg(data) ==
  [role |-> "assistant", text |-> data.reply,
   graph_url |-> data.graph_url, query_id |-> data.query_id,
   query_text |-> data.query_text]

FallbackMsg ==
  [role |-> "assistant", text |-> FallbackText,
   graph_url |-> Absent, query_id |-> Absent, query_text |-> Absent]

(* ------------------------------- state --------------------------------- *)

VARIABLES
  messages,       \* useState<Message[]>([])
  input,          \* useState("")
  loading,        \* useState(false)
  selectedGraph,  \* useState<{url, queryId} | null>(null)
  calls,          \* sendMessage invocations suspended at an await
  fetched,        \* the bodies of the fetch calls made so far, in order
  outcomes,       \* <<k, event>>: how the k-th fetch call ended
  accepted,       \* number of sendMessage invocations that passed the guard
  propagated,     \* TRUE once a sendMessage promise has rejected
  lastEvent       \* what sendMessage did last: its guard or a continuation

\* one call of parseAnalysis, run statement by statement
VARIABLES
  text,            \* the argument of parseAnalysis
  lines,           \* text.split('\n').filter(line => line.trim())
  pos,             \* the index forEach has reached (1-based)
  currentSection,  \* let currentSection
  sections,        \* const sections
  ppc              \* where the call stands: off, split, scan, done

\* one render of AnalyticsCharts, run statement by statement
VARIABLES
  logs,               \* the logs prop
  sortedLogs,         \* const sortedLogs
  performanceRanges,  \* the count of each of the four ranges
  bpos,               \* the index logs.forEach has reached (1-based)
  avgTime,            \* const avgTime, as the two operands of the division
  maxTime,            \* const maxTime
  slowQueries,        \* const slowQueries
  timeSeriesData,     \* const timeSeriesData
  apc                 \* where the render stands: off, sort, count, stats,
                      \* series, done

\* App and its two forms, UploadSection and QueryForm
VARIABLES
  schema,         \* App: useState<Schema | null>(null)
  appLogs,        \* App: useState<LogEntry[] | null>(null), the logs state
  analysis,       \* App: useState<string | null>(null)
  uploading,      \* UploadSection: useState(false)
  uploadStatus,   \* UploadSection: 'idle' | 'success' | 'error'
  dbFile,         \* UploadSection: useState<File | null>(null)
  logFile,        \* UploadSection: useState<File | null>(null)
  uploadCalls,    \* uploadFiles invocations suspended at an await
  uploadsSent,    \* number of fetch calls to /upload
  query,          \* QueryForm: useState("")
  queryLoading,   \* QueryForm: the loading state
  status,         \* QueryForm: 'idle' | 'success' | 'error'
  formQueryId,    \* QueryForm: useState<string | null>(null)
  executionTime,  \* QueryForm: useState<number | null>(null)
  rowsReturned,   \* QueryForm: useState<number | null>(null)
  queryCalls,     \* submitQuery invocations suspended at an await
  queriesSent,    \* number of fetch calls to /analyze
  formEvent       \* what uploadFiles or submitQuery did last

chatVars ==
  <<messages, input, loading, selectedGraph, calls, fetched, outcomes,
    accepted, propagated, lastEvent>>

parseVars == <<text, lines, pos, currentSection, sections, ppc>>

aggVars ==
  <<logs, sortedLogs, performanceRanges, bpos, avgTime, maxTime, slowQueries,
    timeSeriesData, apc>>

appVars ==
  <<schema, appLogs, analysis, uploading, uploadStatus, dbFile, logFile,
    uploadCalls, uploadsSent, query, queryLoading, status, formQueryId,
    executionTime, rowsReturned, queryCalls, queriesSent, formEvent>>

\* the legacy ChatBox
VARIABLES
  boxMessages,    \* useState<{role, content}[]>([])
  boxInput,       \* useState("")
  boxCalls,       \* sendMessage invocations suspended at an await
  boxSent,        \* number of fetch calls to /llm-chat
  answered,       \* the calls whose reply was appended, in that order
  boxEvent        \* what sendMessage of ChatBox did last

boxVars == <<boxMessages, boxInput, boxCalls, boxSent, answered, boxEvent>>

vars == <<chatVars, parseVars, aggVars, appVars, boxVars>>

\* the state hooks of ChatBox after the first render
BoxStart ==
  /\ boxMessages = <<>>
  /\ boxInput = <<>>
  /\ boxCalls = {}
  /\ boxSent = 0
  /\ answered = <<>>
  /\ boxEvent = [op |-> "init", cause |-> "none", id |-> 0]

\* the state hooks of App, UploadSection and QueryForm after the first render
AppStart ==
  /\ schema = Absent
  /\ appLogs = Absent
  /\ analysis = Absent
  /\ uploading = FALSE
  /\ uploadStatus = "idle"
  /\ dbFile = Absent
  /\ logFile = Absent
  /\ uploadCalls = {}
  /\ uploadsSent = 0
  /\ query = <<>>
  /\ queryLoading = FALSE
  /\ status = "idle"
  /\ formQueryId = Absent
  /\ executionTime = Absent
  /\ rowsReturned = Absent
  /\ queryCalls = {}
  /\ queriesSent = 0
  /\ formEvent = [op |-> "init", cause |-> "none", id |-> 0]

\* a quotient not computed yet, and Math.max not called yet
NoQuotient == [num |-> 0, den |-> 1]

NoMax == [finite |-> TRUE, value |-> 0]

\* the four ranges with count: 0
NewRanges == <<0, 0, 0, 0>>

\* no render of AnalyticsCharts is in progress
AggOff ==
  /\ logs = <<>>
  /\ sortedLogs = <<>>
  /\ performanceRanges = NewRanges
  /\ bpos = 0
  /\ avgTime = NoQuotient
  /\ maxTime = NoMax
  /\ slowQueries = 0
  /\ timeSeriesData = <<>>
  /\ apc = "off"

\* const sections = { summary: '', optimizations: [], ... }
NewSections ==
  [summary |-> <<>>, optimizations |-> <<>>, warnings |-> <<>>,
   recommendations |-> <<>>]

\* no call of parseAnalysis is in progress
ParseOff ==
  /\ text = <<>>
  /\ lines = <<>>
  /\ pos = 0
  /\ currentSection = "summary"
  /\ sections = NewSections
  /\ ppc = "off"

NoGraph == [open |-> FALSE, url |-> Absent, queryId |-> Absent]

Init ==
  /\ messages = <<>>
  /\ input = <<>>
  /\ loading = FALSE
  /\ selectedGraph = NoGraph
  /\ calls = {}
  /\ fetched = <<>>
  /\ outcomes = {}
  /\ accepted = 0
  /\ propagated = FALSE
  /\ lastEvent = [op |-> "init", cause |-> "none", data |-> Absent]
  /\ ParseOff
  /\ AggOff
  /\ AppStart
  /\ BoxStart

\* a step of sendMessage: which one, how it ended, what it was given
Ev(op, cause) == [op |-> op, cause |-> cause, data |-> Absent]

EvData(op, data) == [op |-> op, cause |-> "none", data |-> {data}]

\* variant: the updater puts the new message first
PushFront(prev, m) == <<m>> \o prev

\* the state updater prev => [...prev, m]
Push(prev, m) == Append(prev, m)

(* ------------------------------ handlers ------------------------------- *)

\* onChange={(e) => setInput(e.target.value)}
OnChange(v) ==
  /\ input' = v
  /\ UNCHANGED <<messages, loading, selectedGraph, calls, fetched, outcomes,
                 accepted, propagated, lastEvent>>

\* variant: the guard does not look at loading
RejectsNoBusy(inp, ld) == Falsy(Trim(inp))

\* variant: the guard does not trim
RejectsNoTrim(inp, ld) == Falsy(inp) \/ ld

\* the early return of sendMessage
Rejects(inp, ld) == Falsy(Trim(inp)) \/ ld

\* variant: the message is the raw input
UserTextRaw(inp) == inp

\* const userMessage = input.trim()
UserText(inp) == Trim(inp)

\* sendMessage up to its first await
SendMessage ==
  IF Rejects(input, loading)
  THEN /\ lastEvent' = Ev("sendMessage", "rejected")
       /\ UNCHANGED <<messages, input, loading, selectedGraph, calls,
                      fetched, outcomes, accepted, propagated>>
  ELSE LET userMessage == UserText(input) IN
       /\ accepted < MaxTurns
       /\ messages' = Push(messages, UserMsg(userMessage))
       /\ input' = <<>>
       /\ loading' = TRUE
       /\ fetched' = Append(fetched, [message |-> userMessage])
       /\ calls' = calls \cup {[id |-> Len(fetched) + 1, pc |-> "fetch"]}
       /\ accepted' = accepted + 1
       /\ lastEvent' = Ev("sendMessage", "accepted")
       /\ UNCHANGED <<selectedGraph, outcomes, propagated>>

\* <Button onClick={sendMessage}>
ClickSend == SendMessage

\* handleKeyPress
HandleKeyPress(key, shiftKey) ==
  IF key = "Enter" /\ ~shiftKey
  THEN SendMessage
  ELSE UNCHANGED vars

(* ---------------------- sendMessage continuations ---------------------- *)

\* variant: try/finally without a catch block
CatchRethrow(c, cause) ==
  /\ loading' = FALSE
  /\ calls' = calls \ {c}
  /\ outcomes' = outcomes \cup {<<c.id, Ev("failure", cause)>>}
  /\ propagated' = TRUE
  /\ lastEvent' = Ev("failure", cause)
  /\ UNCHANGED <<messages, input, selectedGraph, fetched, accepted>>

\* variant: the catch block only logs
CatchSilent(c, cause) ==
  /\ loading' = FALSE
  /\ calls' = calls \ {c}
  /\ outcomes' = outcomes \cup {<<c.id, Ev("failure", cause)>>}
  /\ lastEvent' = Ev("failure", cause)
  /\ UNCHANGED <<messages, input, selectedGraph, fetched, accepted, propagated>>

\* variant: setLoading(false) is not reached on the failure path
CatchNoFinally(c, cause) ==
  /\ messages' = Push(messages, FallbackMsg)
  /\ calls' = calls \ {c}
  /\ outcomes' = outcomes \cup {<<c.id, Ev("failure", cause)>>}
  /\ lastEvent' = Ev("failure", cause)
  /\ UNCHANGED <<input, loading, selectedGraph, fetched, accepted, propagated>>

\* variant: the catch block sends the request again
CatchRetry(c, cause) ==
  /\ fetched' = Append(fetched, fetched[c.id])
  /\ calls' = (calls \ {c}) \cup {[id |-> Len(fetched) + 1, pc |-> "fetch"]}
  /\ outcomes' = outcomes \cup {<<c.id, Ev("failure", cause)>>}
  /\ lastEvent' = Ev("failure", cause)
  /\ UNCHANGED <<messages, input, loading, selectedGraph, accepted, propagated>>

\* catch block followed by finally
Catch(c, cause) ==
  /\ messages' = Push(messages, FallbackMsg)
  /\ loading' = FALSE
  /\ calls' = calls \ {c}
  /\ outcomes' = outcomes \cup {<<c.id, Ev("failure", cause)>>}
  /\ lastEvent' = Ev("failure", cause)
  /\ UNCHANGED <<input, selectedGraph, fetched, accepted, propagated>>

\* the fetch promise rejects (network error)
FetchRejects(c) ==
  /\ c.pc = "fetch"
  /\ Catch(c, "network")

\* the fetch promise resolves with a response
FetchResolves(c, ok) ==
  /\ c.pc = "fetch"
  /\ IF ~ok
     THEN Catch(c, "status")
     ELSE /\ calls' = (calls \ {c}) \cup {[c EXCEPT !.pc = "json"]}
          /\ lastEvent' = Ev("response", "ok")
          /\ UNCHANGED <<messages, input, loading, selectedGraph, fetched,
                         outcomes, accepted, propagated>>

\* response.json() rejects (the body is not JSON)
JsonRejects(c) ==
  /\ c.pc = "json"
  /\ Catch(c, "decode")

\* variant: a payload without a query id adds no message
JsonResolvesSkipPlain(c, data) ==
  /\ c.pc = "json"
  /\ messages' = IF data.query_id = Absent THEN messages
                 ELSE Push(messages, AssistantMsg(data))
  /\ loading' = FALSE
  /\ calls' = calls \ {c}
  /\ outcomes' = outcomes \cup {<<c.id, EvData("success", data)>>}
  /\ lastEvent' = EvData("success", data)
  /\ UNCHANGED <<input, selectedGraph, fetched, accepted, propagated>>

\* response.json() resolves with data; the try block ends, then finally
JsonResolves(c, data) ==
  /\ c.pc = "json"
  /\ messages' = Push(messages, AssistantMsg(data))
  /\ loading' = FALSE
  /\ calls' = calls \ {c}
  /\ outcomes' = outcomes \cup {<<c.id, EvData("success", data)>>}
  /\ lastEvent' = EvData("success", data)
  /\ UNCHANGED <<input, selectedGraph, fetched, accepted, propagated>>

(* ----------------------------- graph modal ----------------------------- *)

\* variant: the query id is not stored with the url
openGraphModalNoId(graphUrl, queryId) ==
  /\ selectedGraph' = [open |-> TRUE, url |-> graphUrl, queryId |-> Absent]
  /\ UNCHANGED <<messages, input, loading, calls, fetched, outcomes,
                 accepted, propagated, lastEvent>>

openGraphModal(graphUrl, queryId) ==
  /\ selectedGraph' = [open |-> TRUE, url |-> graphUrl, queryId |-> queryId]
  /\ UNCHANGED <<messages, input, loading, calls, fetched, outcomes,
                 accepted, propagated, lastEvent>>

closeGraphModal ==
  /\ selectedGraph' = NoGraph
  /\ UNCHANGED <<messages, input, loading, calls, fetched, outcomes,
                 accepted, propagated, lastEvent>>

\* the maximize button and the iframe of a message rendered with a graph
ClickGraph ==
  \E i \in 1..Len(messages) :
    /\ messages[i].graph_url # Absent
    /\ openGraphModal(messages[i].graph_url, messages[i].query_id)

(* --------------------------- specification ----------------------------- *)

Typing == \E v \in Inputs : OnChange(v)

KeyPress == \E key \in Keys, shiftKey \in BOOLEAN : HandleKeyPress(key, shiftKey)

FetchSettles ==
  \E c \in calls : FetchRejects(c) \/ \E ok \in BOOLEAN : FetchResolves(c, ok)

JsonSettles ==
  \E c \in calls : JsonRejects(c) \/ \E data \in Payloads : JsonResolves(c, data)

Next ==
  \/ Typing /\ UNCHANGED <<parseVars, aggVars, appVars, boxVars>>
  \/ ClickSend /\ UNCHANGED <<parseVars, aggVars, appVars, boxVars>>
  \/ KeyPress /\ UNCHANGED <<parseVars, aggVars, appVars, boxVars>>
  \/ FetchSettles /\ UNCHANGED <<parseVars, aggVars, appVars, boxVars>>
  \/ JsonSettles /\ UNCHANGED <<parseVars, aggVars, appVars, boxVars>>
  \/ ClickGraph /\ UNCHANGED <<parseVars, aggVars, appVars, boxVars>>
  \/ closeGraphModal /\ UNCHANGED <<parseVars, aggVars, appVars, boxVars>>

Spec == Init /\ [][Next]_vars

\* the transport settles every promise it hands out
FairSpec ==
  /\ Spec
  /\ WF_vars(FetchSettles /\ UNCHANGED <<parseVars, aggVars, appVars, boxVars>>)
  /\ WF_vars(JsonSettles /\ UNCHANGED <<parseVars, aggVars, appVars, boxVars>>)


(* ------------------------- narrative classifier ------------------------ *)

\* number of lines of a generated narrative
MaxLines == 3

LineOptimizations ==
  << "O", "p", "t", "i", "m", "i", "z", "a", "t", "i", "o", "n", "s", ":" >>

LineUseIndex ==
  << "-", " ", "u", "s", "e", " ", "a", "n", " ", "i", "n", "d", "e", "x" >>

LineWarnings ==
  << "W", "a", "r", "n", "i", "n", "g", "s", ":" >>

LineTableScan ==
  << "-", " ", "t", "a", "b", "l", "e", " ", "s", "c", "a", "n", " ", "r",
     "i", "s", "k" >>

LineRecommendations ==
  << "R", "e", "c", "o", "m", "m", "e", "n", "d", "a", "t", "i", "o", "n",
     "s", ":" >>

LineSuggestCautionOptimize ==
  << "S", "u", "g", "g", "e", "s", "t", " ", "c", "a", "u", "t", "i", "o",
     "n", ",", " ", "O", "P", "T", "I", "M", "I", "Z", "E" >>

LineRecommendCaution ==
  << "I", " ", "r", "e", "c", "o", "m", "m", "e", "n", "d", " ", "c", "a",
     "u", "t", "i", "o", "n" >>

LineProse ==
  << " ", " ", "Q", "u", "e", "r", "y", " ", "i", "s", " ", "f", "i", "n",
     "e", " " >>

LineBlank ==
  << " " >>

LineGlyphBullet ==
  << "U+00E2", "U+20AC", "U+00A2", " ", "a", "d", "d", " ", "a", " ", "k",
     "e", "y" >>

LineBulletOptimize ==
  << "-", " ", "o", "p", "t", "i", "m", "i", "z", "e", " ", "j", "o", "i",
     "n", "s" >>

LinePool ==
  { LineOptimizations,
    LineUseIndex,
    LineWarnings,
    LineTableScan,
    LineRecommendations,
    LineSuggestCautionOptimize,
    LineRecommendCaution,
    LineProse,
    LineBlank,
    LineGlyphBullet,
    LineBulletOptimize }

RECURSIVE Join(_)
\* the lines of a narrative separated by line feeds
Join(ls) ==
  IF ls = <<>> THEN <<>>
  ELSE IF Len(ls) = 1 THEN ls[1]
  ELSE ls[1] \o <<"\n">> \o Join(Tail(ls))

\* the narrative of section 8 of the specification
ExampleNarrative ==
  Join(<<LineOptimizations, LineUseIndex, LineWarnings, LineTableScan>>)

Narratives ==
  {ExampleNarrative} \cup
  {Join(ls) : ls \in UNION {[1..n -> LinePool] : n \in 0..MaxLines}}

KwOptimization ==
  << "o", "p", "t", "i", "m", "i", "z", "a", "t", "i", "o", "n" >>

KwOptimize ==
  << "o", "p", "t", "i", "m", "i", "z", "e" >>

KwWarning ==
  << "w", "a", "r", "n", "i", "n", "g" >>

KwCaution ==
  << "c", "a", "u", "t", "i", "o", "n" >>

KwRecommend ==
  << "r", "e", "c", "o", "m", "m", "e", "n", "d" >>

KwSuggest ==
  << "s", "u", "g", "g", "e", "s", "t" >>

UpperCase ==
  << "A", "B", "C", "D", "E", "F", "G", "H", "I", "J", "K", "L", "M", "N",
     "O", "P", "Q", "R", "S", "T", "U", "V", "W", "X", "Y", "Z" >>

LowerCase ==
  << "a", "b", "c", "d", "e", "f", "g", "h", "i", "j", "k", "l", "m", "n",
     "o", "p", "q", "r", "s", "t", "u", "v", "w", "x", "y", "z" >>

\* String.prototype.toLowerCase, one character
Lower(c) ==
  IF \E i \in 1..Len(UpperCase) : UpperCase[i] = c
  THEN LowerCase[CHOOSE i \in 1..Len(UpperCase) : UpperCase[i] = c]
  ELSE c

RECURSIVE ToLowerCase(_)
ToLowerCase(s) ==
  IF s = <<>> THEN <<>> ELSE <<Lower(Head(s))>> \o ToLowerCase(Tail(s))

\* String.prototype.startsWith
StartsWith(s, prefix) ==
  Len(prefix) <= Len(s) /\ SubSeq(s, 1, Len(prefix)) = prefix

\* String.prototype.includes
Includes(s, sub) ==
  \E i \in 1..(Len(s) - Len(sub) + 1) : SubSeq(s, i, i + Len(sub) - 1) = sub

\* String.prototype.substring(n)
Substring(s, n) == SubSeq(s, n + 1, Len(s))

RECURSIVE Split(_)
\* String.prototype.split('\n')
Split(s) ==
  IF \E i \in 1..Len(s) : s[i] = "\n"
  THEN LET i == CHOOSE k \in 1..Len(s) :
                  s[k] = "\n" /\ \A j \in 1..(k - 1) : s[j] # "\n"
       IN <<SubSeq(s, 1, i - 1)>> \o Split(SubSeq(s, i + 1, Len(s)))
  ELSE <<s>>

\* line => line.trim(), as a filter predicate
KeepLine(line) == ~Falsy(Trim(line))

\* variant: the chain tests the categories in the opposite order
SectionAfterReversed(trimmedLine, cur) ==
  LET lower == ToLowerCase(trimmedLine) IN
  IF Includes(lower, KwRecommend) \/ Includes(lower, KwSuggest)
  THEN "recommendations"
  ELSE IF Includes(lower, KwWarning) \/ Includes(lower, KwCaution)
  THEN "warnings"
  ELSE IF Includes(lower, KwOptimization) \/ Includes(lower, KwOptimize)
  THEN "optimizations"
  ELSE cur

\* variant: a line without a trigger word moves the cursor back to summary
SectionAfterResets(trimmedLine, cur) ==
  LET lower == ToLowerCase(trimmedLine) IN
  IF Includes(lower, KwOptimization) \/ Includes(lower, KwOptimize)
  THEN "optimizations"
  ELSE IF Includes(lower, KwWarning) \/ Includes(lower, KwCaution)
  THEN "warnings"
  ELSE IF Includes(lower, KwRecommend) \/ Includes(lower, KwSuggest)
  THEN "recommendations"
  ELSE "summary"

\* the if / else-if chain that moves currentSection
SectionAfter(trimmedLine, cur) ==
  LET lower == ToLowerCase(trimmedLine) IN
  IF Includes(lower, KwOptimization) \/ Includes(lower, KwOptimize)
  THEN "optimizations"
  ELSE IF Includes(lower, KwWarning) \/ Includes(lower, KwCaution)
  THEN "warnings"
  ELSE IF Includes(lower, KwRecommend) \/ Includes(lower, KwSuggest)
  THEN "recommendations"
  ELSE cur

\* the two markers of a bullet line
DashMarker == << "-", " " >>

GlyphMarker == << "U+00E2", "U+20AC", "U+00A2", " " >>

IsBullet(trimmedLine) ==
  StartsWith(trimmedLine, DashMarker) \/ StartsWith(trimmedLine, GlyphMarker)

\* variant: the last branch of the push is a plain else
PushBulletElse(sec, cur, cleanLine) ==
  IF cur = "optimizations"
  THEN [sec EXCEPT !.optimizations = Append(@, cleanLine)]
  ELSE IF cur = "warnings"
  THEN [sec EXCEPT !.warnings = Append(@, cleanLine)]
  ELSE [sec EXCEPT !.recommendations = Append(@, cleanLine)]

\* the push of a bullet line to the list of the current section
PushBullet(sec, cur, cleanLine) ==
  IF cur = "optimizations"
  THEN [sec EXCEPT !.optimizations = Append(@, cleanLine)]
  ELSE IF cur = "warnings"
  THEN [sec EXCEPT !.warnings = Append(@, cleanLine)]
  ELSE IF cur = "recommendations"
  THEN [sec EXCEPT !.recommendations = Append(@, cleanLine)]
  ELSE sec

\* variant: the fragments are concatenated without a separator
AddSummaryNoSpace(sec, trimmedLine) ==
  [sec EXCEPT !.summary = @ \o trimmedLine]

\* sections.summary += (sections.summary ? ' ' : '') + trimmedLine
AddSummary(sec, trimmedLine) ==
  [sec EXCEPT !.summary =
     @ \o (IF Falsy(@) THEN <<>> ELSE <<" ">>) \o trimmedLine]

\* variant: the summary test reads the section the line started in
LineBodyOldSection(sec, cur, line) ==
  LET trimmedLine == Trim(line)
      section == SectionAfter(trimmedLine, cur)
  IN [cur |-> section,
      sec |-> IF IsBullet(trimmedLine)
              THEN PushBullet(sec, section, Substring(trimmedLine, 2))
              ELSE IF cur = "summary" /\ Len(trimmedLine) > 0
              THEN AddSummary(sec, trimmedLine)
              ELSE sec]

\* variant: a bullet is pushed before the cursor is moved
LineBodyPushFirst(sec, cur, line) ==
  LET trimmedLine == Trim(line)
      section == SectionAfter(trimmedLine, cur)
  IN [cur |-> section,
      sec |-> IF IsBullet(trimmedLine)
              THEN PushBullet(sec, cur, Substring(trimmedLine, 2))
              ELSE IF section = "summary" /\ Len(trimmedLine) > 0
              THEN AddSummary(sec, trimmedLine)
              ELSE sec]

\* the body of the forEach callback
LineBody(sec, cur, line) ==
  LET trimmedLine == Trim(line)
      section == SectionAfter(trimmedLine, cur)
  IN [cur |-> section,
      sec |-> IF IsBullet(trimmedLine)
              THEN PushBullet(sec, section, Substring(trimmedLine, 2))
              ELSE IF section = "summary" /\ Len(trimmedLine) > 0
              THEN AddSummary(sec, trimmedLine)
              ELSE sec]

\* variant: the partial summary is returned as it is
FallbackKeep(sec, txt) == sec

\* if no list has an element, the summary is the whole text
Fallback(sec, txt) ==
  IF Len(sec.optimizations) = 0 /\ Len(sec.warnings) = 0
       /\ Len(sec.recommendations) = 0
  THEN [sec EXCEPT !.summary = txt]
  ELSE sec

\* parseAnalysis(text) is entered
ParseInit ==
  /\ messages = <<>>
  /\ input = <<>>
  /\ loading = FALSE
  /\ selectedGraph = NoGraph
  /\ calls = {}
  /\ fetched = <<>>
  /\ outcomes = {}
  /\ accepted = 0
  /\ propagated = FALSE
  /\ lastEvent = [op |-> "init", cause |-> "none", data |-> Absent]
  /\ text \in Narratives
  /\ lines = <<>>
  /\ pos = 0
  /\ currentSection = "summary"
  /\ sections = NewSections
  /\ ppc = "split"
  /\ AggOff
  /\ AppStart
  /\ BoxStart

\* const lines = text.split('\n').filter(line => line.trim())
SplitLines ==
  /\ ppc = "split"
  /\ lines' = SelectSeq(Split(text), KeepLine)
  /\ pos' = 1
  /\ ppc' = "scan"
  /\ UNCHANGED <<text, currentSection, sections>>

\* one call of the forEach callback
ForEachLine ==
  /\ ppc = "scan"
  /\ pos <= Len(lines)
  /\ LET r == LineBody(sections, currentSection, lines[pos]) IN
       /\ currentSection' = r.cur
       /\ sections' = r.sec
  /\ pos' = pos + 1
  /\ UNCHANGED <<text, lines, ppc>>

\* the check after the loop, and the return
Return ==
  /\ ppc = "scan"
  /\ pos > Len(lines)
  /\ sections' = Fallback(sections, text)
  /\ ppc' = "done"
  /\ UNCHANGED <<text, lines, pos, currentSection>>

ParseNext ==
  \/ SplitLines /\ UNCHANGED <<chatVars, aggVars, appVars, boxVars>>
  \/ ForEachLine /\ UNCHANGED <<chatVars, aggVars, appVars, boxVars>>
  \/ Return /\ UNCHANGED <<chatVars, aggVars, appVars, boxVars>>

ParseSpec == ParseInit /\ [][ParseNext]_vars

(* ------------------------ performance aggregator ----------------------- *)

\* number of entries of a generated log set
MaxLogs == 3

\* two timestamps whose order as strings is the opposite of their order in time
TsFirst == "1970-01-01T09:00:00+09:00"

TsSecond == "1970-01-01T01:00:00Z"

Timestamps == {TsFirst, TsSecond}

\* new Date(timestamp).getTime(), in milliseconds
GetTime(timestamp) == IF timestamp = TsFirst THEN 0 ELSE 3600000

\* new Date(timestamp).toLocaleTimeString(), in the en-US locale and UTC
ToLocaleTimeString(timestamp) ==
  IF timestamp = TsFirst THEN "12:00:00 AM" ELSE "1:00:00 AM"

ExecTimes == {10, 11, 100, 101}

LogEntry(ts, ms) == [timestamp |-> ts, exec_time_ms |-> ms, query |-> "q"]

LogPool == {LogEntry(ts, ms) : ts \in Timestamps, ms \in ExecTimes}

\* the log set of section 8 of the specification
StatsLogs ==
  << LogEntry(TsSecond, 5), LogEntry(TsFirst, 30), LogEntry(TsSecond, 75),
     LogEntry(TsFirst, 150) >>

\* one entry on each side of every range boundary
BoundaryLogs ==
  << LogEntry(TsSecond, 10), LogEntry(TsSecond, 11), LogEntry(TsFirst, 50),
     LogEntry(TsFirst, 51), LogEntry(TsSecond, 100), LogEntry(TsFirst, 101) >>

LogSets ==
  {StatsLogs, BoundaryLogs} \cup
  UNION {[1..n -> LogPool] : n \in 0..MaxLogs}

\* variant: the operands of the subtraction are swapped
CompareLogsDescending(a, b) == GetTime(b.timestamp) - GetTime(a.timestamp)

\* the comparator of the sort
CompareLogs(a, b) == GetTime(a.timestamp) - GetTime(b.timestamp)

RECURSIVE InsertSorted(_, _)
\* e goes after every element that does not compare greater than it
InsertSorted(sorted, e) ==
  IF sorted = <<>> THEN <<e>>
  ELSE IF CompareLogs(Head(sorted), e) > 0 THEN <<e>> \o sorted
  ELSE <<Head(sorted)>> \o InsertSorted(Tail(sorted), e)

RECURSIVE SortLogsOf(_)
\* [...ls].sort(comparator): Array.prototype.sort is stable
SortLogsOf(ls) ==
  IF ls = <<>> THEN <<>>
  ELSE InsertSorted(SortLogsOf(SubSeq(ls, 1, Len(ls) - 1)), ls[Len(ls)])

\* variant: the first two tests are not chained with else
CountIntoNoElse(ranges, ms) ==
  LET r1 == IF ms <= 10 THEN [ranges EXCEPT ![1] = @ + 1] ELSE ranges
      r2 == IF ms <= 50 THEN [r1 EXCEPT ![2] = @ + 1] ELSE r1
  IN IF ms <= 100 THEN [r2 EXCEPT ![3] = @ + 1] ELSE [r2 EXCEPT ![4] = @ + 1]

\* variant: the upper edges are exclusive
CountIntoStrict(ranges, ms) ==
  IF ms < 10 THEN [ranges EXCEPT ![1] = @ + 1]
  ELSE IF ms < 50 THEN [ranges EXCEPT ![2] = @ + 1]
  ELSE IF ms < 100 THEN [ranges EXCEPT ![3] = @ + 1]
  ELSE [ranges EXCEPT ![4] = @ + 1]

\* the if / else-if chain of the forEach callback
CountInto(ranges, ms) ==
  IF ms <= 10 THEN [ranges EXCEPT ![1] = @ + 1]
  ELSE IF ms <= 50 THEN [ranges EXCEPT ![2] = @ + 1]
  ELSE IF ms <= 100 THEN [ranges EXCEPT ![3] = @ + 1]
  ELSE [ranges EXCEPT ![4] = @ + 1]

RECURSIVE SumTimes(_)
\* logs.reduce((sum, log) => sum + log.exec_time_ms, 0)
SumTimes(ls) ==
  IF ls = <<>> THEN 0
  ELSE SumTimes(SubSeq(ls, 1, Len(ls) - 1)) + ls[Len(ls)].exec_time_ms

\* sum / logs.length; 0 / 0 is NaN
AvgTimeOf(ls) == [num |-> SumTimes(ls), den |-> Len(ls)]

IsNaN(quotient) == quotient.den = 0 /\ quotient.num = 0

\* variant: the time of the first entry is taken
MaxTimeOfFirst(ls) ==
  IF ls = <<>> THEN [finite |-> FALSE, value |-> 0]
  ELSE [finite |-> TRUE, value |-> ls[1].exec_time_ms]

\* Math.max(...values); -Infinity without arguments
MaxTimeOf(ls) ==
  IF ls = <<>> THEN [finite |-> FALSE, value |-> 0]
  ELSE [finite |-> TRUE,
        value |-> CHOOSE m \in {ls[i].exec_time_ms : i \in 1..Len(ls)} :
                    \A i \in 1..Len(ls) : ls[i].exec_time_ms <= m]

\* variant: 100 ms counts as slow
IsSlowInclusive(log) == log.exec_time_ms >= 100

\* the filter predicate of slowQueries
IsSlow(log) == log.exec_time_ms > 100

SlowQueriesOf(ls) == Len(SelectSeq(ls, IsSlow))

\* sortedLogs.map((log, index) => ({...log, index, formattedTime}))
TimeSeriesOf(sorted) ==
  [i \in 1..Len(sorted) |->
     [timestamp |-> sorted[i].timestamp,
      exec_time_ms |-> sorted[i].exec_time_ms,
      query |-> sorted[i].query,
      index |-> i - 1,
      formattedTime |-> ToLocaleTimeString(sorted[i].timestamp)]]

\* AnalyticsCharts is called with a log set
AggInit ==
  /\ messages = <<>>
  /\ input = <<>>
  /\ loading = FALSE
  /\ selectedGraph = NoGraph
  /\ calls = {}
  /\ fetched = <<>>
  /\ outcomes = {}
  /\ accepted = 0
  /\ propagated = FALSE
  /\ lastEvent = [op |-> "init", cause |-> "none", data |-> Absent]
  /\ ParseOff
  /\ logs \in LogSets
  /\ sortedLogs = <<>>
  /\ performanceRanges = NewRanges
  /\ bpos = 0
  /\ avgTime = NoQuotient
  /\ maxTime = NoMax
  /\ slowQueries = 0
  /\ timeSeriesData = <<>>
  /\ apc = "sort"
  /\ AppStart
  /\ BoxStart

\* variant: the array of the caller is sorted in place
SortLogsInPlace ==
  /\ apc = "sort"
  /\ logs' = SortLogsOf(logs)
  /\ sortedLogs' = SortLogsOf(logs)
  /\ bpos' = 1
  /\ apc' = "count"
  /\ UNCHANGED <<performanceRanges, avgTime, maxTime, slowQueries,
                 timeSeriesData>>

\* const sortedLogs = [...logs].sort(...)
SortLogs ==
  /\ apc = "sort"
  /\ sortedLogs' = SortLogsOf(logs)
  /\ bpos' = 1
  /\ apc' = "count"
  /\ UNCHANGED <<logs, performanceRanges, avgTime, maxTime, slowQueries,
                 timeSeriesData>>

\* one call of the logs.forEach callback
CountLog ==
  /\ apc = "count"
  /\ bpos <= Len(logs)
  /\ performanceRanges' = CountInto(performanceRanges, logs[bpos].exec_time_ms)
  /\ bpos' = bpos + 1
  /\ UNCHANGED <<logs, sortedLogs, avgTime, maxTime, slowQueries,
                 timeSeriesData, apc>>

\* the three statistics, after the forEach
Statistics ==
  /\ apc = "count"
  /\ bpos > Len(logs)
  /\ avgTime' = AvgTimeOf(logs)
  /\ maxTime' = MaxTimeOf(logs)
  /\ slowQueries' = SlowQueriesOf(logs)
  /\ apc' = "series"
  /\ UNCHANGED <<logs, sortedLogs, performanceRanges, bpos, timeSeriesData>>

\* const timeSeriesData = sortedLogs.map(...)
TimeSeries ==
  /\ apc = "series"
  /\ timeSeriesData' = TimeSeriesOf(sortedLogs)
  /\ apc' = "done"
  /\ UNCHANGED <<logs, sortedLogs, performanceRanges, bpos, avgTime, maxTime,
                 slowQueries>>

AggNext ==
  \/ SortLogs /\ UNCHANGED <<chatVars, parseVars, appVars, boxVars>>
  \/ CountLog /\ UNCHANGED <<chatVars, parseVars, appVars, boxVars>>
  \/ Statistics /\ UNCHANGED <<chatVars, parseVars, appVars, boxVars>>
  \/ TimeSeries /\ UNCHANGED <<chatVars, parseVars, appVars, boxVars>>

AggSpec == AggInit /\ [][AggNext]_vars

(* ------------------- App, UploadSection and QueryForm ------------------ *)

\* number of requests the two forms send in one run
MaxRequests == 3

Files == {"file"}

\* values of the query box: empty, whitespace only, a query
Queries == { <<>>, <<" ">>, <<"S", "E", "L", "E", "C", "T", " ", "1">> }

\* the decoded body of a successful /upload response
UploadBodies ==
  [schema : {{"customer"}},
   logs : {{<<>>}, {<<LogEntry(TsFirst, 101)>>}, {StatsLogs}}]

\* the decoded body of a successful /analyze response
AnalyzeBodies ==
  [query_id : {{"q1"}}, message : {{"Query executed"}},
   execution_time : {{12}}, rows_returned : {{3}}]

\* onChange={(e) => setDbFile(e.target.files?.[0] || null)}
SetDbFile(f) ==
  /\ dbFile' = f
  /\ UNCHANGED <<schema, appLogs, analysis, uploading, uploadStatus, logFile,
                 uploadCalls, uploadsSent, query, queryLoading, status,
                 formQueryId, executionTime, rowsReturned, queryCalls, queriesSent,
                 formEvent>>

\* onChange={(e) => setLogFile(e.target.files?.[0] || null)}
SetLogFile(f) ==
  /\ logFile' = f
  /\ UNCHANGED <<schema, appLogs, analysis, uploading, uploadStatus, dbFile,
                 uploadCalls, uploadsSent, query, queryLoading, status,
                 formQueryId, executionTime, rowsReturned, queryCalls, queriesSent,
                 formEvent>>

\* the step a form handler took: its guard or one of its continuations
FormEv(op, cause, id) == [op |-> op, cause |-> cause, id |-> id]

\* the early return of uploadFiles
UploadRejects(db, log) == db = Absent \/ log = Absent

\* uploadFiles up to its first await
UploadFiles ==
  IF UploadRejects(dbFile, logFile)
  THEN /\ formEvent' = FormEv("uploadFiles", "rejected", 0)
       /\ UNCHANGED <<schema, appLogs, analysis, uploading, uploadStatus,
                      dbFile, logFile, uploadCalls, uploadsSent, query,
                      queryLoading, status, formQueryId, executionTime,
                      rowsReturned, queryCalls, queriesSent>>
  ELSE /\ uploadsSent + queriesSent < MaxRequests
       /\ formEvent' = FormEv("uploadFiles", "accepted", uploadsSent + 1)
       /\ uploading' = TRUE
       /\ uploadStatus' = "idle"
       /\ uploadCalls' = uploadCalls \cup {[id |-> uploadsSent + 1, pc |-> "fetch"]}
       /\ uploadsSent' = uploadsSent + 1
       /\ UNCHANGED <<schema, appLogs, analysis, dbFile, logFile, query,
                      queryLoading, status, formQueryId, executionTime,
                      rowsReturned, queryCalls, queriesSent>>

\* variant: the failure path clears what an earlier upload has loaded
UploadCatchClears(c, cause) ==
  /\ schema' = Absent
  /\ appLogs' = Absent
  /\ uploadStatus' = "error"
  /\ formEvent' = FormEv("uploadFailure", cause, c.id)
  /\ uploading' = FALSE
  /\ uploadCalls' = uploadCalls \ {c}
  /\ UNCHANGED <<analysis, dbFile, logFile, uploadsSent, query, queryLoading,
                 status, formQueryId, executionTime, rowsReturned, queryCalls,
                 queriesSent>>

\* catch and finally of uploadFiles
UploadCatch(c, cause) ==
  /\ uploadStatus' = "error"
  /\ formEvent' = FormEv("uploadFailure", cause, c.id)
  /\ uploading' = FALSE
  /\ uploadCalls' = uploadCalls \ {c}
  /\ UNCHANGED <<schema, appLogs, analysis, dbFile, logFile, uploadsSent,
                 query, queryLoading, status, formQueryId, executionTime,
                 rowsReturned, queryCalls, queriesSent>>

\* the fetch promise of uploadFiles rejects, or resolves with a response
UploadFetchSettles(c, outcome) ==
  /\ c.pc = "fetch"
  /\ IF outcome = "ok"
     THEN /\ uploadCalls' = (uploadCalls \ {c}) \cup {[c EXCEPT !.pc = "json"]}
          /\ formEvent' = FormEv("uploadResponse", "ok", c.id)
          /\ UNCHANGED <<schema, appLogs, analysis, uploading, uploadStatus,
                         dbFile, logFile, uploadsSent, query, queryLoading,
                         status, formQueryId, executionTime, rowsReturned,
                         queryCalls, queriesSent>>
     ELSE UploadCatch(c, outcome)

\* res.json() of uploadFiles rejects
UploadJsonRejects(c) ==
  /\ c.pc = "json"
  /\ UploadCatch(c, "decode")

\* res.json() of uploadFiles resolves: onSchemaLoaded, onLogsLoaded, finally
UploadJsonResolves(c, data) ==
  /\ c.pc = "json"
  /\ schema' = data.schema
  /\ appLogs' = data.logs
  /\ uploadStatus' = "success"
  /\ formEvent' = FormEv("uploadSuccess", "ok", c.id)
  /\ uploading' = FALSE
  /\ uploadCalls' = uploadCalls \ {c}
  /\ UNCHANGED <<analysis, dbFile, logFile, uploadsSent, query, queryLoading,
                 status, formQueryId, executionTime, rowsReturned, queryCalls,
                 queriesSent>>

\* onChange={(e) => setQuery(e.target.value)}, handleExampleClick
SetQuery(v) ==
  /\ query' = v
  /\ UNCHANGED <<schema, appLogs, analysis, uploading, uploadStatus, dbFile,
                 logFile, uploadCalls, uploadsSent, queryLoading, status,
                 formQueryId, executionTime, rowsReturned, queryCalls, queriesSent,
                 formEvent>>

\* the logs the success path of submitQuery hands to onAnalysis
UpdatedLogs == <<>>

\* the onAnalysis callback of App
OnAnalysis(res) ==
  /\ analysis' = res.analysis
  /\ appLogs' = {res.updated_logs}

\* submitQuery up to its first await
SubmitQuery ==
  IF Falsy(Trim(query))
  THEN /\ formEvent' = FormEv("submitQuery", "rejected", 0)
       /\ UNCHANGED <<schema, appLogs, analysis, uploading, uploadStatus,
                      dbFile, logFile, uploadCalls, uploadsSent, query,
                      queryLoading, status, formQueryId, executionTime,
                      rowsReturned, queryCalls, queriesSent>>
  ELSE /\ uploadsSent + queriesSent < MaxRequests
       /\ formEvent' = FormEv("submitQuery", "accepted", queriesSent + 1)
       /\ queryLoading' = TRUE
       /\ status' = "idle"
       /\ formQueryId' = Absent
       /\ queryCalls' = queryCalls \cup {[id |-> queriesSent + 1, pc |-> "fetch"]}
       /\ queriesSent' = queriesSent + 1
       /\ UNCHANGED <<schema, appLogs, analysis, uploading, uploadStatus,
                      dbFile, logFile, uploadCalls, uploadsSent, query,
                      executionTime, rowsReturned>>

\* catch and finally of submitQuery
QueryCatch(c, cause) ==
  /\ status' = "error"
  /\ formEvent' = FormEv("queryFailure", cause, c.id)
  /\ queryLoading' = FALSE
  /\ queryCalls' = queryCalls \ {c}
  /\ UNCHANGED <<schema, appLogs, analysis, uploading, uploadStatus, dbFile,
                 logFile, uploadCalls, uploadsSent, query, formQueryId,
                 executionTime, rowsReturned, queriesSent>>

\* the fetch promise of submitQuery rejects, or resolves with a response
QueryFetchSettles(c, outcome) ==
  /\ c.pc = "fetch"
  /\ IF outcome = "ok"
     THEN /\ queryCalls' = (queryCalls \ {c}) \cup {[c EXCEPT !.pc = "json"]}
          /\ formEvent' = FormEv("queryResponse", "ok", c.id)
          /\ UNCHANGED <<schema, appLogs, analysis, uploading, uploadStatus,
                         dbFile, logFile, uploadCalls, uploadsSent, query,
                         queryLoading, status, formQueryId, executionTime,
                         rowsReturned, queriesSent>>
     ELSE QueryCatch(c, outcome)

\* res.json() of submitQuery rejects
QueryJsonRejects(c) ==
  /\ c.pc = "json"
  /\ QueryCatch(c, "decode")

\* res.json() of submitQuery resolves: the result, onAnalysis, finally
QueryJsonResolves(c, data) ==
  /\ c.pc = "json"
  /\ formQueryId' = data.query_id
  /\ executionTime' = data.execution_time
  /\ rowsReturned' = data.rows_returned
  /\ OnAnalysis([analysis |-> data.message, updated_logs |-> UpdatedLogs])
  /\ status' = "success"
  /\ formEvent' = FormEv("querySuccess", "ok", c.id)
  /\ queryLoading' = FALSE
  /\ queryCalls' = queryCalls \ {c}
  /\ UNCHANGED <<schema, uploading, uploadStatus, dbFile, logFile,
                 uploadCalls, uploadsSent, query, queriesSent>>

\* {logs && <AnalyticsCharts logs={logs} />}: every array is truthy
ChartsRendered == appLogs # Absent

\* the logs prop of the rendered AnalyticsCharts
ChartLogs == CHOOSE l \in appLogs : TRUE

\* {analysis && <AnalysisResult analysis={analysis} />}
AnalysisRendered == analysis # Absent

ChooseDbFile == \E f \in Opt(Files) : SetDbFile(f)

ChooseLogFile == \E f \in Opt(Files) : SetLogFile(f)

UploadFetch ==
  \E c \in uploadCalls, outcome \in {"ok", "status", "network"} :
    UploadFetchSettles(c, outcome)

UploadJson ==
  \E c \in uploadCalls :
    UploadJsonRejects(c) \/ \E data \in UploadBodies : UploadJsonResolves(c, data)

TypeQuery == \E v \in Queries : SetQuery(v)

QueryFetch ==
  \E c \in queryCalls, outcome \in {"ok", "status", "network"} :
    QueryFetchSettles(c, outcome)

QueryJson ==
  \E c \in queryCalls :
    QueryJsonRejects(c) \/ \E data \in AnalyzeBodies : QueryJsonResolves(c, data)

AppInit ==
  /\ messages = <<>>
  /\ input = <<>>
  /\ loading = FALSE
  /\ selectedGraph = NoGraph
  /\ calls = {}
  /\ fetched = <<>>
  /\ outcomes = {}
  /\ accepted = 0
  /\ propagated = FALSE
  /\ lastEvent = [op |-> "init", cause |-> "none", data |-> Absent]
  /\ ParseOff
  /\ AggOff
  /\ AppStart
  /\ BoxStart

AppNext ==
  \/ ChooseDbFile /\ UNCHANGED <<chatVars, parseVars, aggVars, boxVars>>
  \/ ChooseLogFile /\ UNCHANGED <<chatVars, parseVars, aggVars, boxVars>>
  \/ UploadFiles /\ UNCHANGED <<chatVars, parseVars, aggVars, boxVars>>
  \/ UploadFetch /\ UNCHANGED <<chatVars, parseVars, aggVars, boxVars>>
  \/ UploadJson /\ UNCHANGED <<chatVars, parseVars, aggVars, boxVars>>
  \/ TypeQuery /\ UNCHANGED <<chatVars, parseVars, aggVars, boxVars>>
  \/ SubmitQuery /\ UNCHANGED <<chatVars, parseVars, aggVars, boxVars>>
  \/ QueryFetch /\ UNCHANGED <<chatVars, parseVars, aggVars, boxVars>>
  \/ QueryJson /\ UNCHANGED <<chatVars, parseVars, aggVars, boxVars>>

AppSpec == AppInit /\ [][AppNext]_vars

(* --------------------------- legacy ChatBox ---------------------------- *)

\* number of messages the user sends in one run
MaxBoxTurns == 2

\* values of the input box: empty, whitespace only, plain, with a leading space
BoxInputs == { <<>>, <<" ">>, <<"a">>, <<" ", "b">> }

\* the decoded body of a /llm-chat response
BoxBodies == [reply : Opt(Replies)]

BoxEv(op, cause, id) == [op |-> op, cause |-> cause, id |-> id]

\* onChange={(e) => setInput(e.target.value)}
BoxSetInput(v) ==
  /\ boxInput' = v
  /\ UNCHANGED <<boxMessages, boxCalls, boxSent, answered, boxEvent>>

\* variant: a submit is ignored while a request is outstanding
BoxRejectsBusy(inp, pending) == Falsy(Trim(inp)) \/ pending # {}

\* the early return of sendMessage
BoxRejects(inp, pending) == Falsy(Trim(inp))

\* sendMessage of ChatBox up to its first await
BoxSendMessage ==
  IF BoxRejects(boxInput, boxCalls)
  THEN /\ boxEvent' = BoxEv("sendMessage", "rejected", 0)
       /\ UNCHANGED <<boxMessages, boxInput, boxCalls, boxSent, answered>>
  ELSE LET userMsg == [role |-> "user", content |-> {boxInput}] IN
       /\ boxSent < MaxBoxTurns
       /\ boxMessages' = Append(boxMessages, userMsg)
       /\ boxInput' = <<>>
       /\ boxCalls' = boxCalls \cup
            {[id |-> boxSent + 1, pc |-> "fetch", query |-> boxInput]}
       /\ boxSent' = boxSent + 1
       /\ boxEvent' = BoxEv("sendMessage", "accepted", boxSent + 1)
       /\ UNCHANGED answered

\* onKeyDown={(e) => e.key === "Enter" && sendMessage()}
BoxKeyDown(key) ==
  IF key = "Enter"
  THEN BoxSendMessage
  ELSE UNCHANGED vars

\* the catch block of ChatBox: the error is logged
BoxCatch(c, cause) ==
  /\ boxCalls' = boxCalls \ {c}
  /\ boxEvent' = BoxEv("failure", cause, c.id)
  /\ UNCHANGED <<boxMessages, boxInput, boxSent, answered>>

\* the fetch promise of ChatBox rejects, or resolves with any status
BoxFetchSettles(c, resolved) ==
  /\ c.pc = "fetch"
  /\ IF resolved
     THEN /\ boxCalls' = (boxCalls \ {c}) \cup {[c EXCEPT !.pc = "json"]}
          /\ boxEvent' = BoxEv("response", "ok", c.id)
          /\ UNCHANGED <<boxMessages, boxInput, boxSent, answered>>
     ELSE BoxCatch(c, "network")

\* res.json() of ChatBox rejects
BoxJsonRejects(c) ==
  /\ c.pc = "json"
  /\ BoxCatch(c, "decode")

\* res.json() of ChatBox resolves: botMsg is appended
BoxJsonResolves(c, data) ==
  /\ c.pc = "json"
  /\ boxMessages' =
       Append(boxMessages, [role |-> "assistant", content |-> data.reply])
  /\ answered' = Append(answered, c.id)
  /\ boxCalls' = boxCalls \ {c}
  /\ boxEvent' = BoxEv("success", "ok", c.id)
  /\ UNCHANGED <<boxInput, boxSent>>

BoxTyping == \E v \in BoxInputs : BoxSetInput(v)

BoxClickSend == BoxSendMessage

BoxKeyPress == \E key \in Keys : BoxKeyDown(key)

BoxFetch == \E c \in boxCalls, resolved \in BOOLEAN : BoxFetchSettles(c, resolved)

BoxJson ==
  \E c \in boxCalls :
    BoxJsonRejects(c) \/ \E data \in BoxBodies : BoxJsonResolves(c, data)

BoxInit ==
  /\ messages = <<>>
  /\ input = <<>>
  /\ loading = FALSE
  /\ selectedGraph = NoGraph
  /\ calls = {}
  /\ fetched = <<>>
  /\ outcomes = {}
  /\ accepted = 0
  /\ propagated = FALSE
  /\ lastEvent = [op |-> "init", cause |-> "none", data |-> Absent]
  /\ ParseOff
  /\ AggOff
  /\ AppStart
  /\ BoxStart

BoxNext ==
  \/ BoxTyping /\ UNCHANGED <<chatVars, parseVars, aggVars, appVars>>
  \/ BoxClickSend /\ UNCHANGED <<chatVars, parseVars, aggVars, appVars>>
  \/ BoxKeyPress /\ UNCHANGED <<chatVars, parseVars, aggVars, appVars>>
  \/ BoxFetch /\ UNCHANGED <<chatVars, parseVars, aggVars, appVars>>
  \/ BoxJson /\ UNCHANGED <<chatVars, parseVars, aggVars, appVars>>

BoxSpec == BoxInit /\ [][BoxNext]_vars

(* ------------------------- timeline operators -------------------------- *)

IsPrefix(s, t) == Len(s) <= Len(t) /\ SubSeq(t, 1, Len(s)) = s

Positions(role) == {i \in 1..Len(messages) : messages[i].role = role}

Count(role) == Cardinality(Positions(role))

\* the position in the timeline of the k-th message of a role
Nth(role, k) ==
  CHOOSE i \in Positions(role) :
    Cardinality({j \in Positions(role) : j <= i}) = k

LastMsg == messages[Len(messages)]

NonBlank(s) == \E i \in 1..Len(s) : s[i] # " "

NoFields(m) ==
  m.graph_url = Absent /\ m.query_id = Absent /\ m.query_text = Absent

\* the message a settled request is expected to leave in the timeline
Expected(ev) ==
  IF ev.op = "success"
  THEN LET d == CHOOSE x \in ev.data : TRUE IN
       [role |-> "assistant", text |-> d.reply, graph_url |-> d.graph_url,
        query_id |-> d.query_id, query_text |-> d.query_text]
  ELSE [role |-> "assistant", text |-> FallbackText, graph_url |-> Absent,
        query_id |-> Absent, query_text |-> Absent]

\* lastEvent changes in every step of sendMessage that follows a different
\* one; the handlers outside sendMessage leave it alone
SendStep(op) == lastEvent' # lastEvent /\ lastEvent'.op = op

SubmitStep == SendStep("sendMessage")

\* a step of a handler the user triggers, as opposed to a settled promise
UserStep ==
  ~(SendStep("response") \/ SendStep("failure") \/ SendStep("success"))

(* ------------------------------- claims -------------------------------- *)

\* C1: single-flight.  In every reachable state at most one chat request is
\* outstanding, and a submit attempted while a request is outstanding neither
\* sends a request nor adds a pending call.
C1_SingleFlight ==
  /\ [](Cardinality(calls) <= 1)
  /\ [][(SubmitStep /\ calls # {}) => (fetched' = fetched /\ calls' = calls)]_vars

C1_Witness ==
  /\ lastEvent = Ev("sendMessage", "rejected")
  /\ Cardinality(calls) = 1
  /\ NonBlank(input)

\* C2: a rejected submit changes nothing.  A submit made with an empty or
\* whitespace-only input buffer, or while loading is true, leaves the
\* timeline, the input buffer, loading and the selected graph unchanged and
\* issues no request.
C2_RejectedSubmitIsNoOp ==
  [][(SubmitStep /\ (~NonBlank(input) \/ loading))
       => UNCHANGED <<messages, input, loading, selectedGraph, fetched, calls>>]_vars

C2_Witness ==
  /\ lastEvent = Ev("sendMessage", "rejected")
  /\ ~loading
  /\ input # <<>>
  /\ ~NonBlank(input)

\* C3: an accepted submit (not loading, input not empty after trimming)
\* appends exactly one user message whose text is the trimmed input and which
\* has no query_id, graph_url or query_text, clears the input buffer, sets
\* loading and issues exactly one request carrying that trimmed text.
C3_AcceptedSubmit ==
  [][(SubmitStep /\ ~loading /\ NonBlank(input))
       => /\ Len(messages') = Len(messages) + 1
          /\ SubSeq(messages', 1, Len(messages)) = messages
          /\ messages'[Len(messages')].role = "user"
          /\ messages'[Len(messages')].text = Trim(input)
          /\ NoFields(messages'[Len(messages')])
          /\ input' = <<>>
          /\ loading' = TRUE
          /\ fetched' = Append(fetched, [message |-> Trim(input)])
          /\ Cardinality(calls') = Cardinality(calls) + 1]_vars

C3_Witness ==
  /\ lastEvent = Ev("sendMessage", "accepted")
  /\ loading
  /\ input = <<>>
  /\ LastMsg.role = "user"
  /\ LastMsg.text = <<"a">>
  /\ fetched[Len(fetched)] = [message |-> <<"a">>]

\* C4: whatever the cause of the failure (network error, non-success status,
\* undecodable body), the failure appends exactly one assistant message with
\* the fixed fallback text and no optional field, sets loading to false so
\* that a non-blank submit passes the guard again, and never rejects the
\* promise of sendMessage.
C4_FailureFallback ==
  [][SendStep("failure")
       => /\ messages' = Append(messages, Expected(lastEvent'))
          /\ lastEvent'.cause \in {"network", "status", "decode"}
          /\ loading' = FALSE
          /\ \A v \in Inputs : NonBlank(v) => ~Rejects(v, loading')
          /\ propagated' = FALSE]_vars

C4_Witness ==
  /\ lastEvent = Ev("failure", "decode")
  /\ ~loading
  /\ LastMsg.text = FallbackText
  /\ \E k \in 1..Len(fetched) : <<k, Ev("failure", "network")>> \in outcomes
  /\ \E k \in 1..Len(fetched) : <<k, Ev("failure", "decode")>> \in outcomes

\* C5: a successful response appends exactly one assistant message whose text
\* is the payload's reply and whose query_id, graph_url and query_text are
\* those of the payload (absent when the payload omits them), and sets loading
\* to false.
C5_SuccessMessage ==
  [][SendStep("success")
       => /\ lastEvent'.data # {}
          /\ messages' = Append(messages, Expected(lastEvent'))
          /\ loading' = FALSE]_vars

C5_Witness ==
  /\ lastEvent.op = "success"
  /\ ~loading
  /\ LastMsg.role = "assistant"
  /\ LastMsg.query_id = {7}
  /\ LastMsg.graph_url = Absent
  /\ LastMsg.query_text = {"q"}

\* C6: the number of assistant messages never exceeds the number of user
\* messages, and loading is true exactly when the most recent user message is
\* not yet followed by an assistant message.
C6_CountsAndLoading ==
  /\ Count("assistant") <= Count("user")
  /\ loading <=>
       /\ Positions("user") # {}
       /\ \A j \in Positions("assistant") :
            \E i \in Positions("user") : i > j

C6_Witness ==
  /\ loading
  /\ Count("user") = 2
  /\ Count("assistant") = 1

\* C7: the timeline is append-only and order-preserving.  Every step leaves
\* the previous timeline as a prefix of the new one, and the k-th assistant
\* message is the outcome (reply or fallback) of the request issued for the
\* k-th user message.
C7_AppendOnlyInOrder ==
  /\ [][IsPrefix(messages, messages')]_vars
  /\ [](\A k \in 1..Count("assistant") :
          /\ k <= Count("user")
          /\ k <= Len(fetched)
          /\ fetched[k].message = messages[Nth("user", k)].text
          /\ \E o \in outcomes :
               o[1] = k /\ messages[Nth("assistant", k)] = Expected(o[2]))

C7_Witness ==
  /\ Count("assistant") = 2
  /\ messages[Nth("assistant", 1)].text = FallbackText
  /\ messages[Nth("assistant", 2)].text # FallbackText
  /\ messages[Nth("user", 1)].text # messages[Nth("user", 2)].text

\* C8: every message in the timeline that has a graph_url also has a
\* query_id, whatever optional fields the backend payload contains.
C8_GraphImpliesQueryId ==
  \A i \in 1..Len(messages) :
    messages[i].graph_url # Absent => messages[i].query_id # Absent

\* C9: once a request has been issued, and given that the transport settles
\* it, the session returns to idle with exactly one assistant message appended
\* for that request; no user action taken in between (submit attempt, opening
\* or closing the graph modal, typing, another key) cancels, replaces or
\* duplicates it.
C9_RunsToCompletion ==
  /\ (calls # {}) ~> (calls = {} /\ ~loading)
  /\ [][(UserStep /\ calls # {})
          => /\ calls' = calls
             /\ fetched' = fetched
             /\ messages' = messages
             /\ loading' = loading]_vars
  /\ [](calls = {} =>
          /\ Count("assistant") = Len(fetched)
          /\ \A k \in 1..Len(fetched) :
               Cardinality({o \in outcomes : o[1] = k}) = 1)

C9_Witness ==
  /\ \E c \in calls : c.pc = "json"
  /\ selectedGraph.open
  /\ NonBlank(input)
  /\ Count("assistant") = 1

\* C10: the session never retries on its own.  The number of requests issued
\* equals the number of accepted submits, and a request is issued only by a
\* step that is an accepted submit.
C10_NoAutomaticRetry ==
  /\ [](Len(fetched) = accepted)
  /\ [][(fetched' # fetched)
          => /\ lastEvent' = Ev("sendMessage", "accepted")
             /\ accepted' = accepted + 1
             /\ Len(fetched') = Len(fetched) + 1]_vars

C10_Witness ==
  /\ lastEvent.op = "sendMessage"
  /\ lastEvent.cause = "accepted"
  /\ accepted = 2
  /\ \E o \in outcomes : o[2].op = "failure"

\* the (graph_url, query_id) pairs the timeline offers for focusing
Artifacts ==
  {[open |-> TRUE, url |-> messages[i].graph_url, queryId |-> messages[i].query_id] :
     i \in {j \in 1..Len(messages) : messages[j].graph_url # Absent}}

\* C11: at most one artifact is focused at a time.  A step that changes the
\* focus either makes exactly the pair of one message with a graph the focused
\* one, whatever was focused before, or leaves no pair focused; it changes no
\* message, nor loading, nor the input buffer.
C11_FocusIsIndependent ==
  [][(selectedGraph' # selectedGraph)
       => /\ selectedGraph' \in Artifacts \cup {NoGraph}
          /\ (selectedGraph' = NoGraph) <=> ~selectedGraph'.open
          /\ UNCHANGED <<messages, input, loading, calls, fetched>>]_vars

\* a pair with a query id is focused while the timeline also offers another
\* pair and the input buffer is not empty
C11_Witness ==
  /\ selectedGraph.open
  /\ selectedGraph.queryId = {7}
  /\ Cardinality(Artifacts) = 2
  /\ NonBlank(input)

(* --------------------------- classifier claims ------------------------- *)

ListsEmpty(sec) ==
  sec.optimizations = <<>> /\ sec.warnings = <<>> /\ sec.recommendations = <<>>

\* the categories whose trigger words occur in a line, in any letter case
Triggers(l) ==
  LET low == ToLowerCase(l) IN
  {c \in {"optimizations", "warnings", "recommendations"} :
     \/ c = "optimizations"
          /\ (Includes(low, KwOptimization) \/ Includes(low, KwOptimize))
     \/ c = "warnings"
          /\ (Includes(low, KwWarning) \/ Includes(low, KwCaution))
     \/ c = "recommendations"
          /\ (Includes(low, KwRecommend) \/ Includes(low, KwSuggest))}

\* the step that runs the forEach callback on lines[pos]
LineStep == ppc = "scan" /\ pos' = pos + 1

\* C12: whenever the result has three empty lists, its summary is the whole
\* input string, unmodified; this includes the empty string.
C12_FallbackIsWholeInput ==
  (ppc = "done" /\ ListsEmpty(sections)) => sections.summary = text

\* a header without bullets: the cursor left summary, nothing was listed, and
\* the text differs from what the loop had put in the summary
C12_Witness ==
  /\ ppc = "done"
  /\ ListsEmpty(sections)
  /\ currentSection # "summary"
  /\ Len(lines) = 3
  /\ \E i \in 1..Len(text) : text[i] = "\n"
  /\ sections.summary = text

\* C13: when no trigger word occurs anywhere in the narrative, in any letter
\* case, the three lists are empty and the summary is the input exactly, even
\* when the input has bullet lines.
C13_NoTriggerNoLists ==
  (ppc = "done" /\ Triggers(text) = {})
    => (ListsEmpty(sections) /\ sections.summary = text)

C13_Witness ==
  /\ ppc = "done"
  /\ Triggers(text) = {}
  /\ Len(lines) = 3
  /\ lines[2] = LineUseIndex
  /\ lines[3] = LineProse
  /\ sections.summary = text

\* C14: a non-bullet line with a trigger word is a section header: it moves
\* the cursor to a triggered category and is added to no field.  A following
\* "- " bullet without trigger words is appended, without its marker, to the
\* list of the cursor, after the items already there.  The narrative
\* "Optimizations:\n- use an index\nWarnings:\n- table scan risk" yields
\* optimizations = ["use an index"], warnings = ["table scan risk"], no
\* recommendations and an empty summary.
C14_HeadersAndBullets ==
  /\ [][LineStep =>
          LET l == Trim(lines[pos]) IN
          /\ (Triggers(l) # {} /\ ~StartsWith(l, DashMarker)
                /\ ~StartsWith(l, GlyphMarker))
               => (currentSection' \in Triggers(l) /\ sections' = sections)
          /\ (Triggers(l) = {} /\ StartsWith(l, DashMarker)
                /\ currentSection # "summary")
               => /\ currentSection' = currentSection
                  /\ sections' =
                       [sections EXCEPT ![currentSection] =
                          Append(@, SubSeq(l, 3, Len(l)))]]_vars
  /\ []((ppc = "done" /\ text = ExampleNarrative)
          => sections =
               [summary |-> <<>>,
                optimizations |-> << << "u", "s", "e", " ", "a", "n", " ",
                                        "i", "n", "d", "e", "x" >> >>,
                warnings |-> << << "t", "a", "b", "l", "e", " ", "s", "c",
                                   "a", "n", " ", "r", "i", "s", "k" >> >>,
                recommendations |-> <<>>])

C14_Witness ==
  /\ ppc = "done"
  /\ text = ExampleNarrative
  /\ Len(sections.optimizations) = 1
  /\ Len(sections.warnings) = 1

\* C15: the cursor follows the fixed priority optimization > warning >
\* recommendation, wherever the words stand in the line: a line with an
\* optimization word moves the cursor to optimizations whatever else it
\* contains, and a line with a warning word and a recommendation word and no
\* optimization word moves it to warnings.
C15_TriggerPriority ==
  [][LineStep =>
       LET t == Triggers(Trim(lines[pos])) IN
       /\ ("optimizations" \in t) => currentSection' = "optimizations"
       /\ (t = {"warnings", "recommendations"}) => currentSection' = "warnings"]_vars

\* the recommendation word stands first in both lines
C15_Witness ==
  /\ ppc = "scan"
  /\ pos = 3
  /\ lines[1] = LineRecommendCaution
  /\ lines[2] = LineSuggestCautionOptimize
  /\ currentSection = "optimizations"

(* --------------------------- aggregator claims ------------------------- *)

Times == [i \in 1..Len(logs) |-> logs[i].exec_time_ms]

RECURSIVE SumOf(_, _)
\* f[1] + ... + f[n]
SumOf(f, n) == IF n = 0 THEN 0 ELSE f[n] + SumOf(f, n - 1)

\* the range an execution time belongs to, 1..4
RangeOf(ms) ==
  IF ms <= 10 THEN 1
  ELSE IF 10 < ms /\ ms <= 50 THEN 2
  ELSE IF 50 < ms /\ ms <= 100 THEN 3
  ELSE 4

\* the step that runs the forEach callback on logs[bpos]
CountStep == apc = "count" /\ bpos' = bpos + 1

Counted == apc \in {"series", "done"}

\* C16: every entry is counted in exactly one of the four ranges, and the
\* four counts add up to the number of entries (all are zero for the empty
\* log set).
C16_CountsPartitionLogs ==
  /\ [][CountStep =>
          \E k \in 1..4 :
            performanceRanges' = [performanceRanges EXCEPT ![k] = @ + 1]]_vars
  /\ [](Counted =>
          /\ Len(performanceRanges) = 4
          /\ SumOf(performanceRanges, 4) = Len(logs)
          /\ (logs = <<>> => performanceRanges = <<0, 0, 0, 0>>))

C16_Witness ==
  /\ apc = "done"
  /\ Len(logs) = 3
  /\ performanceRanges = <<1, 0, 2, 0>>

\* C17: the upper edge of each range is inclusive.  An entry is counted in the
\* first range when its time is <= 10, in the second when 10 < time <= 50, in
\* the third when 50 < time <= 100 and in the fourth when time > 100; the
\* times 10, 11, 50, 51, 100, 101 are counted in ranges 1, 2, 2, 3, 3, 4.
C17_InclusiveUpperEdges ==
  /\ [][CountStep =>
          performanceRanges' =
            [performanceRanges EXCEPT ![RangeOf(Times[bpos])] = @ + 1]]_vars
  /\ []((Counted /\ logs = BoundaryLogs) => performanceRanges = <<1, 2, 2, 1>>)

C17_Witness ==
  /\ apc = "done"
  /\ Times = <<10, 11, 50, 51, 100, 101>>
  /\ performanceRanges = <<1, 2, 2, 1>>

\* C18: for a non-empty log set the average is the sum of the times divided
\* by the number of entries, the maximum is the largest time and the slow
\* count is the number of entries with a time above 100; for the times
\* 5, 30, 75, 150 the counts are 1, 1, 1, 1, the average is 65, the maximum
\* 150 and the slow count 1.
C18_Statistics ==
  /\ (apc = "done" /\ logs # <<>>) =>
       /\ avgTime = [num |-> SumOf(Times, Len(logs)), den |-> Len(logs)]
       /\ maxTime.finite
       /\ \E i \in 1..Len(logs) : Times[i] = maxTime.value
       /\ \A i \in 1..Len(logs) : Times[i] <= maxTime.value
       /\ slowQueries = Cardinality({i \in 1..Len(logs) : Times[i] > 100})
  /\ (apc = "done" /\ Times = <<5, 30, 75, 150>>) =>
       /\ performanceRanges = <<1, 1, 1, 1>>
       /\ avgTime.den # 0
       /\ avgTime.num = 65 * avgTime.den
       /\ maxTime = [finite |-> TRUE, value |-> 150]
       /\ slowQueries = 1

C18_Witness ==
  /\ apc = "done"
  /\ logs = StatsLogs
  /\ avgTime = [num |-> 260, den |-> 4]
  /\ slowQueries = 1

\* the rearrangements of the positions 1..n
Rearrangements(n) ==
  {f \in [1..n -> 1..n] : \A i, j \in 1..n : f[i] = f[j] => i = j}

\* C20: the trend sequence is a permutation of the log entries in ascending
\* order of time, entries with the same time keep their relative order, and
\* every trend point has the fields of its entry and an index equal to its
\* zero-based position.
C20_TrendIsStableSort ==
  (apc = "done") =>
    /\ Len(timeSeriesData) = Len(logs)
    /\ \E f \in Rearrangements(Len(logs)) :
         \A i \in 1..Len(logs) :
           /\ timeSeriesData[i].timestamp = logs[f[i]].timestamp
           /\ timeSeriesData[i].exec_time_ms = logs[f[i]].exec_time_ms
           /\ timeSeriesData[i].query = logs[f[i]].query
           /\ timeSeriesData[i].index = i - 1
           /\ \A j \in (i + 1)..Len(logs) :
                \/ GetTime(logs[f[i]].timestamp) < GetTime(logs[f[j]].timestamp)
                \/ /\ GetTime(logs[f[i]].timestamp) = GetTime(logs[f[j]].timestamp)
                   /\ f[i] < f[j]

\* the first entry in time is the second in the input, and the other two
\* share a timestamp
C20_Witness ==
  /\ apc = "done"
  /\ Len(logs) = 3
  /\ logs[1] = LogEntry(TsSecond, 101)
  /\ logs[2] = LogEntry(TsFirst, 100)
  /\ logs[3] = LogEntry(TsSecond, 10)
  /\ timeSeriesData[1].exec_time_ms = 100
  /\ timeSeriesData[3].exec_time_ms = 10

(* ------------------------------ App claims ----------------------------- *)

\* C19: the average and the maximum are rendered only for a non-empty log
\* set.  Whenever the charts are rendered, after any uploads and query
\* executions, the log set has entries, so that neither NaN nor -Infinity is
\* shown.
C19_NoStatisticsWithoutLogs ==
  ChartsRendered =>
    /\ ChartLogs # <<>>
    /\ ~IsNaN(AvgTimeOf(ChartLogs))
    /\ MaxTimeOf(ChartLogs).finite

\* a step of uploadFiles or submitQuery: formEvent changes in every step of
\* a form handler that follows a different one
FormStep(op) == formEvent' # formEvent /\ formEvent'.op = op

\* C21: the log file is optional for an upload.  Submitting the upload form
\* with a database file selected and no log file selected issues the upload
\* request.
C21_LogFileIsOptional ==
  [][(FormStep("uploadFiles") /\ dbFile # Absent /\ logFile = Absent)
       => /\ formEvent'.cause = "accepted"
          /\ uploadsSent' = uploadsSent + 1]_vars

(* ------------------------ more classifier claims ----------------------- *)

\* the marker a bullet line starts with
MarkerOf(trimmedLine) ==
  IF StartsWith(trimmedLine, DashMarker) THEN DashMarker ELSE GlyphMarker

\* C22: every bullet line appended to a list is appended as the trimmed line
\* with its whole marker removed, whichever of the two markers it starts with.
C22_WholeMarkerRemoved ==
  [][(LineStep /\ IsBullet(Trim(lines[pos])) /\ currentSection' # "summary")
       => LET trimmedLine == Trim(lines[pos]) IN
          sections'[currentSection'] =
            Append(sections[currentSection'],
                   Substring(trimmedLine, Len(MarkerOf(trimmedLine))))]_vars

\* the position of the first line with a trigger word, Len(ls) + 1 if none
FirstTrigger(ls) ==
  IF \E i \in 1..Len(ls) : Triggers(Trim(ls[i])) # {}
  THEN CHOOSE i \in 1..Len(ls) :
         /\ Triggers(Trim(ls[i])) # {}
         /\ \A j \in 1..(i - 1) : Triggers(Trim(ls[j])) = {}
  ELSE Len(ls) + 1

NotBullet(l) ==
  ~StartsWith(Trim(l), DashMarker) /\ ~StartsWith(Trim(l), GlyphMarker)

RECURSIVE SpaceJoined(_)
\* the trimmed lines of ls, separated by single spaces
SpaceJoined(ls) ==
  IF ls = <<>> THEN <<>>
  ELSE IF Len(ls) = 1 THEN Trim(ls[1])
  ELSE Trim(ls[1]) \o <<" ">> \o SpaceJoined(Tail(ls))

\* the lines before the first trigger word that are not bullets
SummaryLines(ls) ==
  SelectSeq(SubSeq(ls, 1, FirstTrigger(ls) - 1), NotBullet)

\* C23: whenever the result has a non-empty list, the summary is the trimmed
\* non-bullet lines met while the cursor was summary, in input order, joined
\* by single spaces; the bullet lines met while the cursor was summary are in
\* no list, so the lists hold as many items as there are bullet lines from
\* the first trigger word on.
C23_SummaryBeforeFirstTrigger ==
  (ppc = "done" /\ ~ListsEmpty(sections))
    => /\ sections.summary = SpaceJoined(SummaryLines(lines))
       /\ Len(sections.optimizations) + Len(sections.warnings)
            + Len(sections.recommendations)
          = Cardinality({i \in FirstTrigger(lines)..Len(lines) :
                           ~NotBullet(lines[i])})

\* a prose line, a bullet dropped while the cursor is summary, and a bullet
\* whose trigger word opens the optimizations
C23_Witness ==
  /\ ppc = "done"
  /\ ~ListsEmpty(sections)
  /\ lines = <<LineProse, LineUseIndex, LineBulletOptimize>>
  /\ sections.summary = Trim(LineProse)
  /\ sections.optimizations = <<Substring(LineBulletOptimize, 2)>>

(* ------------------------ more aggregator claims ----------------------- *)

RECURSIVE RangesOf(_)
\* the counts the forEach loop leaves for a log sequence
RangesOf(ls) ==
  IF ls = <<>> THEN NewRanges
  ELSE CountInto(RangesOf(SubSeq(ls, 1, Len(ls) - 1)), ls[Len(ls)].exec_time_ms)

\* the log sequence in the order f
Rearranged(ls, f) == [i \in 1..Len(ls) |-> ls[f[i]]]

Completed == Cardinality(outcomes)

\* C25: the timeline alternates user, assistant, user, ... from a user
\* message on; it has two messages for every completed request and one more
\* while a response is awaited, and its last message is a user message
\* exactly when a response is awaited.
C25_TimelineAlternates ==
  /\ \A i \in 1..Len(messages) :
       messages[i].role = IF i % 2 = 1 THEN "user" ELSE "assistant"
  /\ Len(messages) = 2 * Completed + (IF loading THEN 1 ELSE 0)
  /\ loading <=> (messages # <<>> /\ LastMsg.role = "user")

\* the second request is outstanding; the first ended with a payload that
\* has a reply and no query id
C25_Witness ==
  /\ loading
  /\ Len(messages) = 3
  /\ Completed = 1
  /\ \E o \in outcomes :
       /\ o[2].op = "success"
       /\ \E d \in o[2].data : d.query_id = Absent

\* C26: the cursor never returns to summary.  A line processed after the
\* cursor has left summary leaves the cursor outside summary and adds
\* nothing to the summary, and if it is not a bullet it changes no field of
\* the result; only the fallback can write the summary afterwards, and it
\* writes the whole input.
C26_CursorNeverReturns ==
  /\ [][(LineStep /\ currentSection # "summary")
          => /\ currentSection' # "summary"
             /\ sections'.summary = sections.summary
             /\ NotBullet(lines[pos]) => sections' = sections]_vars
  /\ [][(ppc = "scan" /\ ppc' = "done" /\ sections' # sections)
          => sections' = [sections EXCEPT !.summary = text]]_vars

\* a header, then a prose line that is dropped, then a bullet that is listed
C26_Witness ==
  /\ ppc = "done"
  /\ lines = <<LineOptimizations, LineProse, LineUseIndex>>
  /\ sections.summary = <<>>
  /\ sections.optimizations = <<Substring(LineUseIndex, 2)>>

\* the category the chain picks among the triggered ones
TopTrigger(t) ==
  IF "optimizations" \in t THEN "optimizations"
  ELSE IF "warnings" \in t THEN "warnings"
  ELSE "recommendations"

\* C27: the trigger words are looked for in bullet lines too, before the
\* append.  A bullet line with a trigger word moves the cursor to the
\* triggered category and is appended to the list of that category, whatever
\* the cursor was, and a following bullet without trigger words goes to the
\* same list.
C27_BulletTriggersFirst ==
  [][LineStep =>
       LET l == Trim(lines[pos])
           c == TopTrigger(Triggers(l))
       IN /\ (IsBullet(l) /\ Triggers(l) # {})
               => /\ currentSection' = c
                  /\ Len(sections'[c]) = Len(sections[c]) + 1
                  /\ \A k \in DOMAIN sections \ {c} : sections'[k] = sections[k]
          /\ (IsBullet(l) /\ Triggers(l) = {} /\ pos > 1
                /\ IsBullet(Trim(lines[pos - 1]))
                /\ Triggers(Trim(lines[pos - 1])) # {})
               => /\ currentSection' = TopTrigger(Triggers(Trim(lines[pos - 1])))
                  /\ Len(sections'[currentSection'])
                       = Len(sections[currentSection']) + 1]_vars

\* under the header of the warnings a bullet names an optimization: it and
\* the bullet after it are listed as optimizations
C27_Witness ==
  /\ ppc = "done"
  /\ lines = <<LineWarnings, LineBulletOptimize, LineUseIndex>>
  /\ sections.warnings = <<>>
  /\ Len(sections.optimizations) = 2

\* C28: the slow count is the count of the fourth range, and for a non-empty
\* log set it is positive exactly when the maximum is above 100.
C28_SlowCountIsFourthRange ==
  (apc = "done") =>
    /\ slowQueries = performanceRanges[4]
    /\ logs # <<>> => (slowQueries > 0 <=> (maxTime.finite /\ maxTime.value > 100))

\* the slow entry is not the first one, and an entry of exactly 100 is not
\* slow
C28_Witness ==
  /\ apc = "done"
  /\ Times = <<100, 101, 10>>
  /\ slowQueries = 1
  /\ performanceRanges = <<1, 0, 1, 1>>
  /\ maxTime.value = 101

(* ---------------------------- more App claims -------------------------- *)

\* C29: when an upload or a query execution fails, the step that handles the
\* failure leaves the schema, the log set and the analysis as they are, sets
\* the status of the form to 'error' and its busy flag to false, and keeps
\* what the form needs for the next submit.
C29_FailureKeepsData ==
  [][/\ FormStep("uploadFailure")
          => /\ schema' = schema /\ appLogs' = appLogs /\ analysis' = analysis
             /\ uploadStatus' = "error"
             /\ uploading' = FALSE
             /\ dbFile' = dbFile /\ logFile' = logFile
     /\ FormStep("queryFailure")
          => /\ schema' = schema /\ appLogs' = appLogs /\ analysis' = analysis
             /\ status' = "error"
             /\ queryLoading' = FALSE
             /\ query' = query]_vars

\* after a successful upload, a second upload failed and a query could not
\* be sent
C29_Witness ==
  /\ formEvent = FormEv("queryFailure", "network", 1)
  /\ schema # Absent
  /\ appLogs = {StatsLogs}
  /\ uploadStatus = "error"
  /\ status = "error"
  /\ ~uploading
  /\ ~queryLoading
  /\ uploadCalls = {}

(* ---------------------------- ChatBox claims --------------------------- *)

\* a step of sendMessage of ChatBox, its guard or one of its continuations
BoxStep(op) == boxEvent' # boxEvent /\ boxEvent'.op = op

\* C30: the legacy ChatBox has no busy guard.  A submit is accepted exactly
\* when the input is not blank, however many requests are outstanding: it
\* appends the user message and adds a request to those in flight.  Replies
\* are appended as they arrive, in whatever order.
C30_NoBusyGuard ==
  [][/\ BoxStep("sendMessage")
          => /\ boxEvent'.cause = "accepted" <=> NonBlank(boxInput)
             /\ NonBlank(boxInput)
                  => /\ Len(boxMessages') = Len(boxMessages) + 1
                     /\ boxMessages'[Len(boxMessages')].role = "user"
                     /\ Cardinality(boxCalls') = Cardinality(boxCalls) + 1
     /\ BoxStep("success")
          => /\ Len(boxMessages') = Len(boxMessages) + 1
             /\ boxMessages'[Len(boxMessages')].role = "assistant"
             /\ answered' = Append(answered, boxEvent'.id)]_vars

\* two user messages are adjacent, both requests were in flight together, and
\* the reply to the second was appended before the reply to the first
C30_Witness ==
  /\ Len(boxMessages) = 4
  /\ boxMessages[1].role = "user"
  /\ boxMessages[2].role = "user"
  /\ boxMessages[3].role = "assistant"
  /\ answered = <<2, 1>>

====
